---- MODULE Spec2Model ----
(***************************************************************************)
(* Model of the user-pointer capture Stream (src/src/io/userptr/stream.rs) *)
(* together with the V4L2 driver it talks to through ioctl calls, and of   *)
(* the Format conversions (src/src/capture/format.rs).                     *)
(*                                                                         *)
(* Stream fields: arena_index, active, queued (and the arena's buffers).   *)
(* Driver: the queue of submitted buffers (drvPending), the queue of       *)
(* completed buffers waiting for VIDIOC_DQBUF (drvDone), the streaming     *)
(* flag (drvStreaming) and the frame counter (drvSeq).                     *)
(* slot_state is the per-slot ownership of the data model (Free, Queued,   *)
(* Filled) as the Stream's operations move it.                             *)
(* last, results, desc and view record what the most recent call did: the  *)
(* device calls it issued, what they returned and what the call returned.  *)
(***************************************************************************)
EXTENDS Integers, Sequences, FiniteSets, TLC

VARIABLES
    mode,           \* the scenario: "any" driver, "fifo" driver, "format" conversions
    count,          \* number of buffers of the arena (with_buffers' count)
    arena_index,    \* Stream.arena_index
    active,         \* Stream.active
    queued,         \* Stream.queued
    slot_state,     \* per-slot ownership: "Free", "Queued" or "Filled"
    drvPending,     \* driver: submitted slots not yet completed, in submission order
    drvDone,        \* driver: completed slots not yet retrieved, in completion order
    drvStreaming,   \* driver: streaming is on
    drvSeq,         \* driver: number of frames completed so far
    pc,             \* position of the (single) calling thread
    panicked,       \* a panic was raised (unwrap() of an Err)
    arena_released, \* how many times the arena's memory was released
    submits,        \* pool indices handed to VIDIOC_QBUF by successful queue() calls
    dequeue_called, \* dequeue() was called at least once since construction
    dequeued,       \* VIDIOC_DQBUF succeeded at least once since construction
    last,           \* the most recent call: what it issued and returned
    results,        \* what each device call of the most recent call returned
    desc,           \* the completion descriptor VIDIOC_DQBUF filled in the most recent call
    view,           \* the Frame view the most recent call returned
    frames,         \* "fifo" scenario: the views returned by the next() calls so far
    conv            \* "format" scenario: a Format, its native descriptor and the way back

vars == <<mode, count, arena_index, active, queued, slot_state, drvPending, drvDone,
          drvStreaming, drvSeq, pc, panicked, arena_released, submits,
          dequeue_called, dequeued, last, results, desc, view, frames, conv>>

\* ---------------------------------------------------------------- bounds

\* largest pool size explored
MaxCount == 2
\* the driver holds at most MaxHeld submissions at once (pool size + double submits)
MaxHeld == 3
\* at most MaxSubmits successful submissions are followed
MaxSubmits == 4
\* capacity of a buffer of the arena, in bytes
Capacity == 1
\* "fifo" scenario: number of next() calls followed
MaxFifoCalls == 10
\* Stream::new: Stream::with_buffers(dev, 4)
DefaultBuffers == 4

\* ---------------------------------------------------------------- helpers

Slots == 0 .. (count - 1)

IoctlResults == {"ok", "err"}

\* Option<usize>::None of the index scan
None == 0 - 1

\* address of the i-th buffer of the arena (buf.as_ptr()); 0 is never a buffer
BufPtr(i) == i + 1

\* an address that belongs to no buffer of the pool (the zeroed descriptor's userptr)
NullPtr == BufPtr(None)

Range(s) == {s[i] : i \in DOMAIN s}

\* the slots the driver holds: submitted and neither retrieved nor reclaimed
DrvHeld == Range(drvPending) \cup Range(drvDone)

DrvHeldCount == Len(drvPending) + Len(drvDone)

\* how many times the driver holds slot i
HeldTimes(i) == Cardinality({k \in DOMAIN drvPending : drvPending[k] = i})
                + Cardinality({k \in DOMAIN drvDone : drvDone[k] = i})

QueuedSlots == {i \in Slots : slot_state[i] = "Queued"}

RemoveAt(s, k) == [j \in 1 .. (Len(s) - 1) |-> IF j < k THEN s[j] ELSE s[j + 1]]

NoCall == [op |-> "none", result |-> "ok", issued |-> <<>>,
           sub |-> None, prior |-> "none", ret |-> None, addr |-> NullPtr]

Call(op, result, issued, sub, prior, ret, addr) ==
    [op |-> op, result |-> result, issued |-> issued,
     sub |-> sub, prior |-> prior, ret |-> ret, addr |-> addr]

\* v4l2_buf = mem::zeroed(): the descriptor before VIDIOC_DQBUF fills it
ZeroDesc == [userptr |-> NullPtr, bytesused |-> 0, sequence |-> 0]

\* no Frame view was returned
NoView == [ptr |-> NullPtr, len |-> 0, sequence |-> None]

\* no conversion under way
NoConv == [stage |-> "none"]

\* the bounds on the driver's queue and on the submissions, per scenario
HeldCap == IF mode = "fifo" THEN DefaultBuffers ELSE MaxHeld

SubmitCap == IF mode = "fifo" THEN MaxFifoCalls ELSE MaxSubmits

\* ---------------------------------------------------------------- Stream

\* Arena::allocate(n): the arena queues up all n buffers once, in index order
AllocatedPending(n) == [i \in 1 .. n |-> i - 1]

\* with_buffers(dev, n): the arena allocates n buffers and queues all of them once;
\* the Stream starts at index 0, not active, queued
Constructed(n) ==
    /\ count = n
    /\ arena_index = 0
    /\ active = FALSE
    /\ queued = TRUE
    /\ slot_state = [i \in 0 .. (n - 1) |-> "Queued"]
    /\ drvPending = AllocatedPending(n)
    /\ drvDone = <<>>
    /\ drvStreaming = FALSE
    /\ drvSeq = 0
    /\ pc = "ready"
    /\ panicked = FALSE
    /\ arena_released = 0
    /\ submits = <<>>
    /\ dequeue_called = FALSE
    /\ dequeued = FALSE
    /\ last = NoCall
    /\ results = <<>>
    /\ desc = ZeroDesc
    /\ view = NoView
    /\ frames = <<>>

Init ==
    /\ mode = "any"
    /\ \E n \in 1 .. MaxCount : Constructed(n)
    /\ conv = NoConv

\* ---- driver side of the device calls (an Err leaves the driver as it was)

\* VIDIOC_STREAMON
StreamOn(r) ==
    drvStreaming' = IF r = "ok" THEN TRUE ELSE drvStreaming

\* VIDIOC_STREAMOFF: the driver gives up every buffer it holds
StreamOff(r) ==
    /\ drvStreaming' = IF r = "ok" THEN FALSE ELSE drvStreaming
    /\ drvPending' = IF r = "ok" THEN <<>> ELSE drvPending
    /\ drvDone' = IF r = "ok" THEN <<>> ELSE drvDone

\* VIDIOC_QBUF of slot i
QBuf(r, i) ==
    /\ r = "ok" => DrvHeldCount < HeldCap
    /\ drvPending' = IF r = "ok" THEN Append(drvPending, i) ELSE drvPending

\* VIDIOC_DQBUF can return Ok only with a completed buffer to hand back
CanDqBuf(r) == r = "ok" => drvDone # <<>>

\* VIDIOC_DQBUF: hands back the oldest completed buffer
DqBuf(r) ==
    drvDone' = IF r = "ok" THEN Tail(drvDone) ELSE drvDone

\* the addresses the completion descriptor of slot k may carry: the address the
\* slot was submitted with, or one that belongs to no buffer of the pool
ReportedPtrs(k) == {BufPtr(k), NullPtr}

\* the bytesused a completion descriptor may carry (an empty, a full and an
\* over-long one): nothing in the device call keeps it within the buffer
UsedLens == {0, Capacity, Capacity + 1}

\* the sequence number of the oldest completed buffer: completed buffers are
\* numbered in completion order
DoneSequence == drvSeq - Len(drvDone)

\* ---- Stream::start

Start ==
    /\ pc = "ready"
    /\ \E r \in IoctlResults :
        /\ StreamOn(r)
        /\ last' = Call("start", r, <<"STREAMON">>, None, "none", None, NullPtr)
        /\ results' = <<r>>
    /\ desc' = ZeroDesc
    /\ view' = NoView
    /\ UNCHANGED <<mode, count, arena_index, active, queued, slot_state, drvPending,
                   drvDone, drvSeq, pc, panicked, arena_released, submits,
                   dequeue_called, dequeued, frames, conv>>

\* ---- Stream::stop

\* the ownership of the slots after VIDIOC_STREAMOFF returned r
StopSlots(r) ==
    IF r = "ok" THEN [i \in Slots |-> "Free"] ELSE slot_state

Stop ==
    /\ pc = "ready"
    /\ \E r \in IoctlResults :
        /\ StreamOff(r)
        /\ slot_state' = StopSlots(r)
        /\ last' = Call("stop", r, <<"STREAMOFF">>, None, "none", None, NullPtr)
        /\ results' = <<r>>
    /\ desc' = ZeroDesc
    /\ view' = NoView
    /\ UNCHANGED <<mode, count, arena_index, active, queued, drvSeq, pc, panicked,
                   arena_released, submits, dequeue_called, dequeued, frames, conv>>

\* ---- Stream::queue

\* a queue() without the check of the queued flag
QueueNeverSkips == FALSE

\* if self.queued { return Ok(()) }
QueueSkips == queued

\* an index that is not advanced after a submission
NextIndexStuck(i) == i

\* an index that is advanced without wrapping at the end of the pool
NextIndexNoWrap(i) == i + 1

\* self.arena_index += 1; if self.arena_index == len { self.arena_index = 0 }
NextIndex(i) == IF i + 1 = count THEN 0 ELSE i + 1

\* an index that is advanced before the result of VIDIOC_QBUF is looked at
QueueIndexAlways(r) == NextIndex(arena_index)

\* the index after queue(): VIDIOC_QBUF returning an Err leaves before the advance
QueueIndex(r) == IF r = "ok" THEN NextIndex(arena_index) ELSE arena_index

\* the device calls queue() issues
QueueIssued == IF QueueSkips THEN <<>> ELSE <<"QBUF">>

\* what the device calls of queue() returned
QueueResults(r) == IF QueueSkips THEN <<>> ELSE <<r>>

\* what queue() returns when VIDIOC_QBUF returns r
QueueResult(r) == IF QueueSkips THEN "skipped" ELSE r

\* the slot queue() submits, and its ownership at that moment
QueueSub == IF QueueSkips THEN None ELSE arena_index

QueuePrior == IF QueueSkips THEN "none" ELSE slot_state[arena_index]

\* the body of queue(), VIDIOC_QBUF returning r
QueueBody(r) ==
    IF QueueSkips
    THEN UNCHANGED <<arena_index, slot_state, drvPending, submits>>
    ELSE /\ QBuf(r, arena_index)
         /\ r = "ok" => Len(submits) < SubmitCap
         /\ arena_index' = QueueIndex(r)
         /\ slot_state' = IF r = "ok"
                          THEN [slot_state EXCEPT ![arena_index] = "Queued"]
                          ELSE slot_state
         /\ submits' = IF r = "ok" THEN Append(submits, arena_index) ELSE submits

Queue ==
    /\ pc = "ready"
    /\ \E r \in IoctlResults :
        /\ QueueBody(r)
        /\ last' = Call("queue", QueueResult(r), QueueIssued, QueueSub, QueuePrior,
                        None, NullPtr)
        /\ results' = QueueResults(r)
    /\ desc' = ZeroDesc
    /\ view' = NoView
    /\ UNCHANGED <<mode, count, active, queued, drvDone, drvStreaming, drvSeq, pc,
                   panicked, arena_released, dequeue_called, dequeued, frames, conv>>

\* ---- Stream::dequeue

\* for i in 0..buffers.len(): the first i whose buffer starts at ptr, else None
RECURSIVE ScanFrom(_, _)
ScanFrom(i, ptr) ==
    IF i >= count THEN None
    ELSE IF BufPtr(i) = ptr THEN i
    ELSE ScanFrom(i + 1, ptr)

FindIndex(ptr) == ScanFrom(0, ptr)

\* a queued flag that is cleared before the result of VIDIOC_DQBUF is looked at
DequeueQueuedAlways(r) == FALSE

\* a queued flag that dequeue() leaves alone
DequeueQueuedKept(r) == queued

\* self.queued = false, once VIDIOC_DQBUF returned Ok
DequeueQueued(r) == IF r = "ok" THEN FALSE ELSE queued

\* what dequeue() returns: the device error, "failed to find buffer", or a view
DequeueResult(r, ptr) ==
    IF r # "ok" THEN "err"
    ELSE IF FindIndex(ptr) = None THEN "notfound"
    ELSE "ok"

\* the slot whose memory the returned view covers
DequeueRet(r, ptr) == IF r = "ok" THEN FindIndex(ptr) ELSE None

\* the ownership of the slots after dequeue()
DequeueSlots(r, ptr) ==
    IF DequeueResult(r, ptr) = "ok"
    THEN [slot_state EXCEPT ![FindIndex(ptr)] = "Filled"]
    ELSE slot_state

\* the descriptor after VIDIOC_DQBUF returned r: filled by the driver with the
\* address, the bytes used and the sequence number of the oldest completed buffer
DequeueDesc(r, ptr, used) ==
    IF r = "ok"
    THEN [userptr |-> ptr, bytesused |-> used, sequence |-> DoneSequence]
    ELSE ZeroDesc

\* slice::from_raw_parts(v4l2_buf.m.userptr, v4l2_buf.bytesused) and
\* Metadata::new(v4l2_buf.sequence, ..), when dequeue() returns Ok
DequeueView(r, d) ==
    IF DequeueResult(r, d.userptr) = "ok"
    THEN [ptr |-> d.userptr, len |-> d.bytesused, sequence |-> d.sequence]
    ELSE NoView

\* the body of dequeue(): VIDIOC_DQBUF returns r and a descriptor carrying ptr
DequeueBody(r, ptr) ==
    /\ CanDqBuf(r)
    /\ r = "ok" => ptr \in ReportedPtrs(Head(drvDone))
    /\ r # "ok" => ptr = NullPtr
    /\ DqBuf(r)
    /\ queued' = DequeueQueued(r)
    /\ slot_state' = DequeueSlots(r, ptr)

Ptrs == {BufPtr(i) : i \in Slots} \cup {NullPtr}

Dequeue ==
    /\ pc = "ready"
    /\ \E r \in IoctlResults, ptr \in Ptrs, used \in UsedLens :
        /\ DequeueBody(r, ptr)
        /\ r # "ok" => used = 0
        /\ last' = Call("dequeue", DequeueResult(r, ptr), <<"DQBUF">>, None, "none",
                        DequeueRet(r, ptr), ptr)
        /\ results' = <<r>>
        /\ desc' = DequeueDesc(r, ptr, used)
        /\ view' = DequeueView(r, DequeueDesc(r, ptr, used))
        /\ dequeued' = (dequeued \/ r = "ok")
    /\ dequeue_called' = TRUE
    /\ UNCHANGED <<mode, count, arena_index, active, drvPending, drvStreaming, drvSeq,
                   pc, panicked, arena_released, submits, frames, conv>>

\* ---- Stream::next

\* if !self.active { self.start()? }
NextStarts == ~active

\* a next() that goes on after a failed start()
NextStartNeverFails(rs) == FALSE

\* self.start()?: the Err of start() ends next()
NextStartFails(rs) == NextStarts /\ rs # "ok"

\* self.queue()?: the Err of queue() ends next()
NextQueueFails(rq) == QueueResult(rq) = "err"

\* if !self.active { self.start()? }  self.queue()?  -- up to the blocking dequeue()
NextBegin ==
    /\ pc = "ready"
    /\ \E rs \in IoctlResults, rq \in IoctlResults :
        IF NextStartFails(rs)
        THEN /\ StreamOn(rs)
             /\ rq = "err"
             /\ last' = Call("next", "err", <<"STREAMON">>, None, "none", None, NullPtr)
             /\ results' = <<rs>>
             /\ UNCHANGED <<arena_index, slot_state, drvPending, submits, pc>>
        ELSE /\ IF NextStarts THEN StreamOn(rs)
                ELSE rs = "ok" /\ UNCHANGED drvStreaming
             /\ QueueBody(rq)
             /\ pc' = IF NextQueueFails(rq) THEN "ready" ELSE "next_dequeue"
             /\ last' = Call("next",
                             IF NextQueueFails(rq) THEN "err" ELSE "pending",
                             (IF NextStarts THEN <<"STREAMON">> ELSE <<>>) \o QueueIssued,
                             QueueSub, QueuePrior, None, NullPtr)
             /\ results' = (IF NextStarts THEN <<rs>> ELSE <<>>) \o QueueResults(rq)
    /\ desc' = ZeroDesc
    /\ view' = NoView
    /\ UNCHANGED <<mode, count, active, queued, drvDone, drvSeq, panicked,
                   arena_released, dequeue_called, dequeued, frames, conv>>

\* the record of a returned view: the slot it covers, its sequence number and length
Frame(ret, v) == [slot |-> ret, sequence |-> v.sequence, len |-> v.len]

\* self.dequeue() of next()
NextDequeue ==
    /\ pc = "next_dequeue"
    /\ \E r \in IoctlResults, ptr \in Ptrs, used \in UsedLens :
        /\ DequeueBody(r, ptr)
        /\ r # "ok" => used = 0
        /\ last' = Call("next", DequeueResult(r, ptr), Append(last.issued, "DQBUF"),
                        last.sub, last.prior, DequeueRet(r, ptr), ptr)
        /\ results' = Append(results, r)
        /\ desc' = DequeueDesc(r, ptr, used)
        /\ view' = DequeueView(r, DequeueDesc(r, ptr, used))
        /\ dequeued' = (dequeued \/ r = "ok")
        /\ frames' = IF mode = "fifo" /\ DequeueResult(r, ptr) = "ok"
                     THEN Append(frames, Frame(DequeueRet(r, ptr),
                                               DequeueView(r, DequeueDesc(r, ptr, used))))
                     ELSE frames
    /\ pc' = "ready"
    /\ dequeue_called' = TRUE
    /\ UNCHANGED <<mode, count, arena_index, active, drvPending, drvStreaming, drvSeq,
                   panicked, arena_released, submits, conv>>

\* ---- Drop for Stream

\* self.stop().unwrap(): VIDIOC_STREAMOFF returns r; the Err of stop() panics, and
\* the panic either unwinds through the fields of the Stream or aborts the process
DropStopCall(r, unwinds) ==
    /\ StreamOff(r)
    /\ slot_state' = StopSlots(r)
    /\ r = "ok" => unwinds
    /\ panicked' = (r # "ok")
    /\ pc' = IF unwinds THEN "drop_fields" ELSE "aborted"
    /\ last' = Call("drop", r, <<"STREAMOFF">>, None,
                    IF QueuedSlots # {} THEN "Queued" ELSE "none", None, NullPtr)
    /\ results' = <<r>>

\* a destructor that stops the stream only when the Stream believes it is active
DropStopIfActive ==
    /\ pc = "ready"
    /\ IF active
       THEN \E r \in IoctlResults, unwinds \in BOOLEAN : DropStopCall(r, unwinds)
       ELSE /\ pc' = "drop_fields"
            /\ last' = Call("drop", "ok", <<>>, None,
                            IF QueuedSlots # {} THEN "Queued" ELSE "none", None, NullPtr)
            /\ results' = <<>>
            /\ UNCHANGED <<slot_state, drvPending, drvDone, drvStreaming, panicked>>
    /\ desc' = ZeroDesc
    /\ view' = NoView
    /\ UNCHANGED <<mode, count, arena_index, active, queued, drvSeq, arena_released,
                   submits, dequeue_called, dequeued, frames, conv>>

\* Drop::drop
DropStop ==
    /\ pc = "ready"
    /\ \E r \in IoctlResults, unwinds \in BOOLEAN : DropStopCall(r, unwinds)
    /\ desc' = ZeroDesc
    /\ view' = NoView
    /\ UNCHANGED <<mode, count, arena_index, active, queued, drvSeq, arena_released,
                   submits, dequeue_called, dequeued, frames, conv>>

\* the fields of the Stream are dropped after Drop::drop: the arena frees its buffers
DropFields ==
    /\ pc = "drop_fields"
    /\ arena_released' = arena_released + 1
    /\ pc' = "dropped"
    /\ UNCHANGED <<mode, count, arena_index, active, queued, slot_state, drvPending,
                   drvDone, drvStreaming, drvSeq, panicked, submits, dequeue_called,
                   dequeued, last, results, desc, view, frames, conv>>

\* ---- the driver

\* the driver, while streaming, fills one of the buffers it holds, in any order
Complete ==
    /\ pc \in {"ready", "next_dequeue"}
    /\ drvStreaming
    /\ \E k \in DOMAIN drvPending :
        /\ drvDone' = Append(drvDone, drvPending[k])
        /\ drvPending' = RemoveAt(drvPending, k)
    /\ drvSeq' = drvSeq + 1
    /\ UNCHANGED <<mode, count, arena_index, active, queued, slot_state, drvStreaming,
                   pc, panicked, arena_released, submits, dequeue_called, dequeued,
                   last, results, desc, view, frames, conv>>

Next ==
    \/ Start
    \/ Stop
    \/ Queue
    \/ Dequeue
    \/ NextBegin
    \/ NextDequeue
    \/ DropStop
    \/ DropFields
    \/ Complete

Spec == Init /\ [][Next]_vars

\* the same Stream with a driver whose completion descriptors always carry the
\* address the slot was submitted with
NextHonest ==
    \/ Start
    \/ Stop
    \/ Queue
    \/ Dequeue /\ last'.result # "notfound"
    \/ NextBegin
    \/ NextDequeue /\ last'.result # "notfound"
    \/ DropStop
    \/ DropFields
    \/ Complete

SpecHonest == Init /\ [][NextHonest]_vars

\* ---- the scenario of a driver that completes in submission order

\* every device call of the most recent call returned Ok
AllOk == \A i \in DOMAIN results : results[i] = "ok"

\* the driver fills the buffer that was submitted first
CompleteFifo ==
    /\ Complete
    /\ drvDone' = Append(drvDone, Head(drvPending))
    /\ drvPending' = Tail(drvPending)

InitFifo ==
    /\ mode = "fifo"
    /\ \E n \in 1 .. DefaultBuffers : Constructed(n)
    /\ conv = NoConv

\* next() is called over and over, every device call succeeds, every frame
\* fills its buffer, and the driver completes in submission order
NextFifo ==
    \/ NextBegin /\ Len(frames) < MaxFifoCalls /\ AllOk'
    \/ NextDequeue /\ last'.result = "ok" /\ view'.len = Capacity
    \/ CompleteFifo

SpecFifo == InitFifo /\ [][NextFifo]_vars

\* ---- the scenario of the liveness of next(): every device call succeeds, the
\* ---- driver reports the address it was given, and the Stream is not dropped

NextLive ==
    \/ Start /\ AllOk'
    \/ Stop /\ AllOk'
    \/ Queue /\ AllOk'
    \/ Dequeue /\ last'.result = "ok"
    \/ NextBegin /\ AllOk'
    \/ NextDequeue /\ last'.result = "ok"
    \/ Complete

\* the driver eventually completes a buffer it holds, and a blocking
\* VIDIOC_DQBUF returns once a completed buffer is waiting
Fairness ==
    /\ WF_vars(Complete)
    /\ WF_vars(NextDequeue /\ last'.result = "ok")

SpecLive == Init /\ [][NextLive]_vars /\ Fairness

\* ---- Format and its conversions to and from v4l2_pix_format

\* the largest 16-bit half of a u32
MaxU16 == 65535

\* a u32 as its two 16-bit halves, most significant first
U32(hi, lo) == <<hi, lo>>

\* the largest u32
MaxU32 == U32(MaxU16, MaxU16)

\* the u32 values explored for width, height, stride and size
U32Samples == {U32(0, 0), U32(0, 1), U32(0, 640), U32(1, 0), MaxU32}

\* enum Field and the u32 code of each variant (V4L2_FIELD_*)
FieldCodes ==
    [Any |-> 0, None |-> 1, Top |-> 2, Bottom |-> 3, Interlaced |-> 4,
     SequentialTB |-> 5, SequentialBT |-> 6, Alternate |-> 7, InterlacedTB |-> 8,
     InterlacedBT |-> 9]

\* enum Colorspace and the u32 code of each variant (V4L2_COLORSPACE_*)
ColorspaceCodes ==
    [Default |-> 0, SMPTE170M |-> 1, SMPTE240M |-> 2, Rec709 |-> 3, NTSC |-> 5,
     EBUTech3213 |-> 6, JPEG |-> 7, SRGB |-> 8, OPRGB |-> 9, Rec2020 |-> 10,
     RAW |-> 11, DCIP3 |-> 12]

\* <enum> as u32: the code of a variant
EnumCode(codes, v) == U32(0, codes[v])

\* <enum>::try_from(u32): the variant of that code, or an Err
EnumTryFrom(codes, c) ==
    IF c[1] = 0 /\ \E v \in DOMAIN codes : codes[v] = c[2]
    THEN CHOOSE v \in DOMAIN codes : codes[v] = c[2]
    ELSE "Invalid"

\* the bytes explored for the four characters of a FourCC
ByteSamples == {0, 89, 255}

\* the FourCC values explored: four bytes each
FourCCSamples == {<<89, 85, 89, 86>>, <<77, 74, 80, 71>>}
                   \cup {<<a, b, b, a>> : a, b \in ByteSamples}

\* FourCC into u32: the four bytes, least significant first
FourCCInto(cc) == U32(cc[3] + 256 * cc[4], cc[1] + 256 * cc[2])

\* FourCC::from(u32): the four bytes of the code, least significant first
FourCCFrom(c) == <<c[2] % 256, c[2] \div 256, c[1] % 256, c[1] \div 256>>

\* the Format records explored
Formats ==
    [width : U32Samples, height : {U32(0, 480), MaxU32}, field : DOMAIN FieldCodes,
     fourcc : FourCCSamples, stride : {U32(0, 0), MaxU32}, size : {U32(0, 1), MaxU32},
     colorspace : DOMAIN ColorspaceCodes]

\* impl Into<v4l2_pix_format> for Format
FormatInto(f) ==
    [width |-> f.width,
     height |-> f.height,
     field |-> EnumCode(FieldCodes, f.field),
     pixelformat |-> FourCCInto(f.fourcc),
     bytesperline |-> f.stride,
     sizeimage |-> f.size,
     colorspace |-> EnumCode(ColorspaceCodes, f.colorspace)]

\* a conversion back that takes stride and size from each other's member
FormatFromSwapped(p) ==
    [width |-> p.width,
     height |-> p.height,
     field |-> EnumTryFrom(FieldCodes, p.field),
     fourcc |-> FourCCFrom(p.pixelformat),
     stride |-> p.sizeimage,
     size |-> p.bytesperline,
     colorspace |-> EnumTryFrom(ColorspaceCodes, p.colorspace)]

\* impl From<v4l2_pix_format> for Format
FormatFrom(p) ==
    [width |-> p.width,
     height |-> p.height,
     field |-> EnumTryFrom(FieldCodes, p.field),
     fourcc |-> FourCCFrom(p.pixelformat),
     stride |-> p.bytesperline,
     size |-> p.sizeimage,
     colorspace |-> EnumTryFrom(ColorspaceCodes, p.colorspace)]

StreamVars == <<count, arena_index, active, queued, slot_state, drvPending, drvDone,
                drvStreaming, drvSeq, pc, panicked, arena_released, submits,
                dequeue_called, dequeued, last, results, desc, view, frames>>

InitFormat ==
    /\ mode = "format"
    /\ Constructed(1)
    /\ \E f \in Formats : conv = [stage |-> "format", fmt |-> f]

\* let pix: v4l2_pix_format = fmt.into()
ConvertInto ==
    /\ conv.stage = "format"
    /\ conv' = [stage |-> "native", fmt |-> conv.fmt, pix |-> FormatInto(conv.fmt)]
    /\ UNCHANGED <<mode, StreamVars>>

\* Format::from(pix)
ConvertFrom ==
    /\ conv.stage = "native"
    /\ conv' = [stage |-> "back", fmt |-> conv.fmt, pix |-> conv.pix,
                back |-> FormatFrom(conv.pix)]
    /\ UNCHANGED <<mode, StreamVars>>

NextFormat ==
    \/ ConvertInto
    \/ ConvertFrom

SpecFormat == InitFormat /\ [][NextFormat]_vars

\* ---------------------------------------------------------------- claims

Issued(c) == Range(last.issued) \cap {c} # {}

\* C1: every slot queue() hands to VIDIOC_QBUF is process-owned (Free or Filled)
\* at the moment of the submission, whatever order the driver completes in.
C1_SubmitsProcessOwned ==
    (last.op \in {"queue", "next"} /\ last.sub # None)
        => last.prior \in {"Free", "Filled"}

\* C2: every slot is in exactly one of Free, Queued, Filled, the slots the driver
\* holds are exactly the Queued ones, and the driver holds no slot twice.
C2_OwnershipPartition ==
    /\ \A i \in Slots : slot_state[i] \in {"Free", "Queued", "Filled"}
    /\ DrvHeld = QueuedSlots
    /\ \A i \in Slots : HeldTimes(i) <= 1

\* C3: the k-th successful submission of queue() is of pool index (k - 1) mod N,
\* whatever dequeue() returned in between.
C3_RoundRobin ==
    \A k \in DOMAIN submits : submits[k] = (k - 1) % count

\* C3 witness: the pool went round more than once, and dequeue() returned a slot
\* other than the one the round-robin index points at
C3_Witness ==
    /\ count > 1
    /\ Len(submits) > count
    /\ last.op = "dequeue" /\ last.result = "ok" /\ last.ret # arena_index

\* C4: before any dequeue(), a queue() call returns success without a device
\* call and leaves the index, the slot states and the driver's queue as they were.
C4_QueueNoOpBeforeDequeue ==
    [][(~dequeue_called /\ Queue)
          => /\ last'.result = "skipped"
             /\ last'.issued = <<>>
             /\ UNCHANGED <<arena_index, queued, slot_state, drvPending, drvDone,
                            submits>>]_vars

\* C4 witness: queue() was called on a started stream before any dequeue()
C4_Witness ==
    /\ last.op = "queue"
    /\ ~dequeue_called
    /\ drvStreaming
    /\ DrvHeldCount = count

\* C5: a dequeue() that fails with "failed to find buffer" returns no view and
\* leaves the index, the queued flag and every slot's ownership as they were.
C5_NotFoundLeavesState ==
    [][(Dequeue /\ last'.result = "notfound")
          => /\ last'.ret = None
             /\ UNCHANGED <<arena_index, queued, slot_state>>]_vars

\* C6: a successful start() makes the Stream active, and next() issues
\* VIDIOC_STREAMON only while the stream is not streaming yet.
C6_NextStartsOnce ==
    [][/\ (Start /\ last'.result = "ok") => active'
       /\ (NextBegin /\ drvStreaming) => ~("STREAMON" \in Range(last'.issued))]_vars

\* C7: the destruction of a Stream issues VIDIOC_STREAMOFF in every state, and
\* the arena's memory is released only after it.
C7_DropAlwaysStops ==
    /\ pc \in {"drop_fields", "dropped", "aborted"}
          => (last.op = "drop" /\ Issued("STREAMOFF"))
    /\ arena_released > 0 => (last.op = "drop" /\ Issued("STREAMOFF"))

\* C7 witness: a Stream that was streaming and had submitted slots was destroyed
C7_Witness ==
    /\ pc = "dropped"
    /\ arena_released = 1
    /\ submits # <<>>
    /\ last.prior = "Queued"

\* C8: a failing VIDIOC_STREAMOFF during destruction is swallowed: no panic, and
\* the arena's memory is still released exactly once.
C8_TeardownSwallowsError ==
    (last.op = "drop" /\ last.result = "err")
        => /\ ~panicked
           /\ pc # "aborted"
           /\ pc = "dropped" => arena_released = 1

C10_StopResetsQueued ==
    [][/\ (Stop /\ last'.result = "ok")
            => (~drvStreaming' /\ \A i \in Slots : slot_state'[i] = "Free")
       /\ (Queue /\ last.op = "stop" /\ last.result = "ok")
            => (last'.result # "skipped" /\ last'.sub # None)]_vars

\* C11: with a driver that completes in submission order, numbering frames from
\* 0, the k-th next() returns a view of slot (k - 1) mod N with sequence number
\* k - 1, and that slot is Filled when the view is returned.
C11_FifoFrames ==
    /\ \A k \in DOMAIN frames :
          /\ frames[k].slot = (k - 1) % count
          /\ frames[k].sequence = k - 1
    /\ (pc = "ready" /\ last.op = "next" /\ last.result = "ok")
          => slot_state[last.ret] = "Filled"

\* C11 witness: a pool of 4 slots and 10 calls: slots 0,1,2,3,0,1,2,3,0,1 and
\* sequence numbers 0..9
C11_Witness ==
    /\ count = 4
    /\ [k \in DOMAIN frames |-> frames[k].slot] = <<0, 1, 2, 3, 0, 1, 2, 3, 0, 1>>
    /\ [k \in DOMAIN frames |-> frames[k].sequence] = <<0, 1, 2, 3, 4, 5, 6, 7, 8, 9>>
    /\ pc = "ready"

\* C12: when VIDIOC_DQBUF itself fails, dequeue() returns the error and no Frame
\* view, and the queued flag, the round-robin index and the ownership of every
\* slot are as before the call.
C12_DequeueFailure ==
    [][(/\ results' # <<>>
        /\ results'[Len(results')] = "err"
        /\ Dequeue \/ NextDequeue)
          => /\ last'.result = "err"
             /\ last'.ret = None
             /\ view' = NoView
             /\ UNCHANGED <<queued, arena_index, slot_state>>]_vars

\* C12 witness: a dequeue() whose VIDIOC_DQBUF failed while the Stream was still
\* in its queued state, with completed buffers waiting
C12_Witness ==
    /\ last.op = "dequeue"
    /\ results = <<"err">>
    /\ queued
    /\ drvDone # <<>>
    /\ view = NoView

\* C13: start() returns what VIDIOC_STREAMON returned; a next() in which a device
\* call failed returns the error, issued nothing after the failed call and does
\* not go on to dequeue().
C13_NextStopsAtError ==
    /\ last.op = "start" => last.result = results[1]
    /\ last.op = "next" =>
          /\ Len(results) = Len(last.issued)
          /\ \A i \in DOMAIN results :
                results[i] = "err" => /\ i = Len(results)
                                      /\ last.result = "err"
                                      /\ pc = "ready"
          /\ "DQBUF" \in Range(last.issued) => pc = "ready"

\* C13 witness: a next() whose VIDIOC_STREAMON was rejected while the driver was
\* already streaming: it issued no VIDIOC_QBUF and no VIDIOC_DQBUF
C13_Witness ==
    /\ last.op = "next"
    /\ last.issued = <<"STREAMON">>
    /\ results = <<"err">>
    /\ drvStreaming
    /\ pc = "ready"

\* the step is a queue(), alone or inside next(), that returns at the queued check
SkippedStep ==
    \/ last'.result = "skipped" /\ Queue
    \/ last'.result = "pending" /\ last'.sub = None /\ NextBegin

\* the step is a queue(), alone or inside next(), whose VIDIOC_QBUF returned Ok
SubmitStep ==
    /\ last'.sub # None
    /\ Queue \/ NextBegin
    /\ results'[Len(results')] = "ok"

\* what a successful queue() does: one slot submitted, index advanced by one mod N
SubmitsOne ==
    /\ submits' = Append(submits, arena_index)
    /\ arena_index' = (arena_index + 1) % count

\* C14 as stated: the skip happens once per Stream (a queue() that follows a
\* skipped queue() is not skipped), after the first successful VIDIOC_DQBUF
\* queue() is never skipped, and every later successful queue() submits one slot
\* and advances the round-robin index by one (mod N).
C14_SkipExactlyOnce ==
    [][/\ (SkippedStep /\ last.op = "queue") => last.result # "skipped"
       /\ dequeued => ~SkippedStep
       /\ (dequeued /\ SubmitStep) => SubmitsOne]_vars

\* C14 amended: queue() is skipped only before the first successful VIDIOC_DQBUF
\* (any number of times); after it queue() is never skipped and every successful
\* queue() submits one slot and advances the round-robin index by one (mod N).
C14_SkipOnlyBeforeFirstDequeue ==
    [][/\ SkippedStep => ~dequeued
       /\ (~dequeued /\ Queue) => last'.result = "skipped"
       /\ dequeued => ~SkippedStep
       /\ (dequeued /\ SubmitStep) => SubmitsOne]_vars

\* C14 witness: a successful queue() after the first successful VIDIOC_DQBUF, with
\* the index wrapped around
C14_Witness ==
    /\ dequeued
    /\ last.op = "queue"
    /\ last.result = "ok"
    /\ last.sub = count - 1
    /\ arena_index = 0
    /\ count > 1

\* the most recent call ended at a VIDIOC_QBUF that returned an Err
QBufFailed ==
    /\ last.op \in {"queue", "next"}
    /\ last.sub # None
    /\ last.issued[Len(last.issued)] = "QBUF"
    /\ results[Len(results)] = "err"

\* C17: when VIDIOC_QBUF fails, queue() returns the error and leaves the
\* round-robin index and the queued flag unchanged, and the next queue() submits
\* the same slot index again.
C17_QueueFailure ==
    [][/\ (QBufFailed' /\ (Queue \/ NextBegin))
            => /\ last'.result = "err"
               /\ UNCHANGED <<arena_index, queued, submits>>
       /\ (QBufFailed /\ last'.sub # None /\ (Queue \/ NextBegin))
            => last'.sub = last.sub]_vars

\* C17 witness: a queue() whose VIDIOC_QBUF of a slot other than 0 failed, after an
\* earlier successful submission
C17_Witness ==
    /\ last.op = "queue"
    /\ QBufFailed
    /\ last.sub = arena_index
    /\ arena_index > 0
    /\ submits # <<>>

\* C18: the round-robin index is always within the pool, 0 <= index < N, and it
\* is modified only by a successful VIDIOC_QBUF in queue().
C18_IndexInPool ==
    /\ [](arena_index \in 0 .. (count - 1))
    /\ [][arena_index' # arena_index
            => /\ Queue \/ NextBegin
               /\ last'.sub = arena_index
               /\ results'[Len(results')] = "ok"
               /\ submits' = Append(submits, arena_index)]_vars

\* C18 witness: the index of a pool of more than one slot back at 0 after it
\* reached the last slot
C18_Witness ==
    /\ count > 1
    /\ arena_index = 0
    /\ Len(submits) >= count
    /\ submits[Len(submits)] = count - 1

\* the step is a dequeue(), alone or inside next(), that returns a view
DequeueOkStep ==
    /\ last'.result = "ok"
    /\ dequeue_called'
    /\ Dequeue \/ NextDequeue

\* C15: a successful dequeue() moves exactly one slot, the one whose address is
\* the address of the completion descriptor, from Queued to Filled, leaves every
\* other slot and the round-robin index unchanged, and the returned view carries
\* the sequence number of that descriptor.
C15_DequeueEffect ==
    [][DequeueOkStep
         => /\ BufPtr(last'.ret) = desc'.userptr
            /\ slot_state[last'.ret] = "Queued"
            /\ slot_state' = [slot_state EXCEPT ![last'.ret] = "Filled"]
            /\ UNCHANGED arena_index
            /\ view'.sequence = desc'.sequence]_vars

\* C19: a returned Frame view starts at the address of the resolved slot, its
\* length is the bytesused of the completion descriptor, and it does not extend
\* past the capacity of the slot.
C19_ViewWithinSlot ==
    view # NoView
      => /\ view.ptr = BufPtr(last.ret)
         /\ view.len = desc.bytesused
         /\ view.len <= Capacity

\* C16: with a driver that eventually completes every slot it holds and device
\* calls that all succeed, every next() that has reached its blocking dequeue()
\* eventually returns a Frame view, also after a stop().
C16_NextReturns ==
    (pc = "next_dequeue")
      ~> (pc = "ready" /\ last.op = "next" /\ last.result = "ok" /\ view # NoView)

\* C20: a Format converted to the driver's native descriptor and back equals the
\* original in every attribute.
C20_FormatRoundTrip ==
    conv.stage = "back"
      => /\ conv.back = conv.fmt
         /\ \A a \in DOMAIN conv.fmt : conv.back[a] = conv.fmt[a]

\* C20 witness: a round trip of a Format whose attributes are all different from
\* the zeroed descriptor's and whose stride and size differ
C20_Witness ==
    /\ conv.stage = "back"
    /\ conv.fmt.width = MaxU32
    /\ conv.fmt.height = U32(0, 480)
    /\ conv.fmt.field = "InterlacedBT"
    /\ conv.fmt.fourcc = <<89, 85, 89, 86>>
    /\ conv.fmt.stride = U32(0, 0)
    /\ conv.fmt.size = MaxU32
    /\ conv.fmt.colorspace = "DCIP3"
    /\ conv.pix.pixelformat = U32(22105, 21849)
    /\ conv.pix.colorspace = U32(0, 12)

====
